---- MODULE Spec2Model ----
(***************************************************************************)
(* Batch orchestration of Steam account maintenance.                       *)
(*                                                                         *)
(*   mode = "seq"   : main.py, the sequential avatar run: one SteamManager *)
(*                    (a browser) per account, login, change_avatar,       *)
(*                    logout_all in a finally block, a delay between       *)
(*                    accounts, the final statistics.                      *)
(*   mode = "batch" : steam_gifts.py / steam_points_manager.py, the        *)
(*                    concurrent gift run: one asyncio task per account    *)
(*                    behind a semaphore, each with its own                *)
(*                    SteamPointsManager, joined by asyncio.gather.        *)
(*                                                                         *)
(* Spec runs the two programs. Five parts are also run alone, on every     *)
(* input up to a bound: SpecAgg the statistics (main's counters and        *)
(* print_stats), SpecApi one SteamManager and one SteamPointsManager under *)
(* any sequence of calls, SpecGen SteamGuardGenerator.generate_code and    *)
(* the two logins that call it, SpecPar the per-account parameters handed  *)
(* out by ProfileManager and AvatarManager, SpecLd the reading of the      *)
(* accounts file.                                                          *)
(*                                                                         *)
(* The remote service and the browser are the environment: what a login    *)
(* answers is fixed per account by a script (the answer to the 1st, 2nd,   *)
(* ... call), every other remote call answers nondeterministically.        *)
(***************************************************************************)
EXTENDS Integers, Sequences, FiniteSets, TLC

\* ------------------------------------------------------------------ bounds
NAccounts == 3
NTasks == 2
MaxConcurrentBound == 2
MaxOutcomes == 4
NUsers == 2
MaxSecretLen == 4
MaxCount == 4
MaxSets == 2
MaxLines == 3

\* the accounts of the sequential run, the accounts (tasks) of the batch run
Accounts == 1..NAccounts
Tasks == 1..NTasks
Accts(m) == IF m = "seq" THEN Accounts ELSE Tasks

\* ------------------------------------------------------- the environment
\* What the remote service answers to the successive login calls made for
\* one account; the last entry repeats for ever.
LoginScripts ==
    { <<"ok">>, <<"invalid">>, <<"nosecret">>, <<"transient", "transient", "ok">> }

ScriptAt(s, k) == s[IF k <= Len(s) THEN k ELSE Len(s)]

\* driver.quit(): returns, or raises a WebDriverException.
QuitOutcomes == {"ok", "raises"}

\* webdriver.Chrome(...) in _init_driver: a browser comes up, or it raises.
DriverInitOutcomes == {"up", "raises"}

\* What happens to an avatar upload: saved and confirmed, file sent but the
\* save button not found, or an error before the file was sent.
AvatarOutcomes == {"applied", "unconfirmed", "failed"}

VARIABLES
    mode,              \* "seq" | "batch"
    script,            \* script[a]: the login script of account a
    loginCalls,        \* loginCalls[a]: calls of login made for account a
    actionCalls,       \* actionCalls[a]: calls of change_avatar / send_gift
    actionHist,        \* actionHist[a]: what the remote action did, "" if none
    \* -- main.py
    i,                 \* loop index of main (1-based)
    pc,                \* position of main
    pending,           \* "none" | "interrupt": a KeyboardInterrupt unwinding
    driver,            \* driver[a]: SteamManager.driver of account a's manager
    current_username,  \* current_username[a]: 0 is None
    success_count,
    fail_count,
    outcomes,          \* the outcomes in the order they were counted
    summary,           \* the final statistics, <<>> until printed
    \* -- steam_gifts.py / steam_points_manager.py
    max_concurrent,    \* the semaphore's initial value
    sem,               \* the semaphore's value: free permits
    holds,             \* holds[t]: task t is inside "async with semaphore"
    tpc,               \* tpc[t]: position of task t
    session,           \* session[t]: SteamPointsManager.session of task t
    result,            \* result[t]: the dict process_account builds
    gifts,             \* gifts[t]: the gift list process_account holds, <<>> if none
    best,              \* best[t]: cost of the gift find_best_gift chose, 0 if none
    paReturns,         \* paReturns[t]: returns of process_account for task t
    bpc,               \* position of main_async
    results,           \* what asyncio.gather returned, <<>> before
    stats,             \* what print_stats printed, <<>> before
    \* -- the result aggregation taken alone
    agg,               \* a run of the aggregation: its input and its position
    \* -- one SteamManager and one SteamPointsManager, called in any order
    api,               \* their fields and the last call made on them
    \* -- SteamGuardGenerator and the two logins that call it
    gen,               \* a secret, two clock readings and what came of them
    \* -- ProfileManager and AvatarManager: the per-account parameters
    par,               \* the loaded lists, the count asked for, what was returned
    \* -- AccountManager.load_accounts and the recipient filter of steam_gifts
    ld                 \* the lines of the accounts file and the accounts read

seqVars == <<i, pc, pending, driver, current_username, success_count,
             fail_count, outcomes, summary>>
envVars == <<mode, script, agg, api, gen, par, ld>>
callVars == <<loginCalls, actionCalls, actionHist>>
batchVars == <<max_concurrent, sem, holds, tpc, session, result, gifts, best,
               paReturns, bpc, results, stats>>
orchVars == <<mode, script, callVars, seqVars, batchVars>>
vars == <<envVars, callVars, seqVars, batchVars>>

\* ---------------------------------------------------------- SteamManager

\* SteamManager.login: True exactly when the page left /login.
LoginReturnsAlways(o) == TRUE
LoginReturns(o) == o = "ok"

\* SteamManager.login, lines 438-445: current_username after login returned
\* ok: the username on True, what it was on False.
LoginSetsAlways(cur, username, ok) == username
LoginSets(cur, username, ok) == IF ok THEN username ELSE cur

\* SteamManager.change_avatar: True on a confirmed save and also when the
\* save button was not found after the upload; False on an error.
ChangeAvatarInverted(o) == o \notin {"applied", "unconfirmed"}
ChangeAvatarReturns(o) == o \in {"applied", "unconfirmed"}

\* SteamManager.logout_all on the manager of account a, where quit answers q:
\* the new <<driver[a], current_username[a]>>.
LogoutAll(d, u, q) ==
    IF d = "open"
    THEN IF q = "ok" THEN <<"none", 0>> ELSE <<d, u>>
    ELSE <<d, u>>

\* SteamManager.__del__: logout_all once more when the object is dropped.
Del(d, u, q) == LogoutAll(d, u, q)

\* ---------------------------------------------------------------- main.py

\* (success_count / len(accounts) * 100) printed with one decimal, in tenths
\* of a percent, rounded to the nearest tenth (no quotient of the batch
\* sizes modelled falls on a half, where the float formatting rounds to even).
RateTenths(s, n) == (2000 * s + n) \div (2 * n)

Outcome(a, ok) == [acc |-> a, ok |-> ok]

\* lines 216-222: where main goes after login returned ok: on False it
\* continues, which runs the finally block; on True it sleeps, then acts.
AfterLoginFallsThrough(ok) == "sleep"
AfterLogin(ok) == IF ok THEN "sleep" ELSE "logout"

\* lines 229-238: after change_avatar returned, whatever it returned, the
\* try block ends and the finally block runs.
AfterActionRetry(ok) == IF ok THEN "logout" ELSE "action"
AfterAction(ok) == "logout"

\* lines 236-252 and 264-269: after the finally block a pending
\* KeyboardInterrupt goes on to __main__; else the loop delays and goes on
\* with the next account, or ends.
AfterFinallyNoDelay(pend, idx) ==
    IF pend = "interrupt" THEN "interrupted"
    ELSE IF idx < NAccounts THEN "new" ELSE "summary"
AfterFinallySwallows(pend, idx) == IF idx < NAccounts THEN "delay" ELSE "summary"
AfterFinally(pend, idx) ==
    IF pend = "interrupt" THEN "interrupted"
    ELSE IF idx < NAccounts THEN "delay" ELSE "summary"

\* line 211, inside the loop: steam_manager = SteamManager(). The iteration
\* of account idx works on a manager of its own: manager number idx.
ManagerShared(idx) == 1
ManagerOf(idx) == idx

\* line 211: steam_manager = SteamManager(); the manager of the previous
\* account is dropped by the rebinding and its __del__ runs.
MainNew ==
    /\ mode = "seq" /\ pc = "new" /\ i <= NAccounts
    /\ \E q \in QuitOutcomes :
         IF i > 1
         THEN LET m == ManagerOf(i - 1)
                  r == Del(driver[m], current_username[m], q) IN
              /\ driver' = [driver EXCEPT ![m] = r[1]]
              /\ current_username' = [current_username EXCEPT ![m] = r[2]]
         ELSE UNCHANGED <<driver, current_username>>
    /\ pc' = "login"
    /\ UNCHANGED batchVars
    /\ UNCHANGED <<envVars, callVars, i, pending, success_count, fail_count,
                   outcomes, summary>>

\* lines 216-219: login; on False count a failure and continue (through
\* the finally block).
MainLogin ==
    /\ mode = "seq" /\ pc = "login"
    /\ loginCalls' = [loginCalls EXCEPT ![i] = @ + 1]
    /\ \E d \in DriverInitOutcomes :
         LET o == IF d = "up" THEN ScriptAt(script[i], loginCalls[i] + 1)
                  ELSE "nodriver"
             ok == LoginReturns(o)
         IN /\ driver' = [driver EXCEPT ![ManagerOf(i)] =
                              IF d = "up" THEN "open" ELSE @]
            /\ current_username' =
                 [current_username EXCEPT ![ManagerOf(i)] = LoginSets(@, i, ok)]
            /\ IF ok
               THEN UNCHANGED <<fail_count, outcomes>>
               ELSE /\ fail_count' = fail_count + 1
                    /\ outcomes' = Append(outcomes, Outcome(i, FALSE))
            /\ pc' = AfterLogin(ok)
    /\ UNCHANGED batchVars
    /\ UNCHANGED <<envVars, actionCalls, actionHist, i, pending,
                   success_count, summary>>

\* line 222: time.sleep(config['delay_after_login'])
MainSleep ==
    /\ mode = "seq" /\ pc = "sleep"
    /\ pc' = "action"
    /\ UNCHANGED batchVars
    /\ UNCHANGED <<envVars, callVars, i, pending, driver, current_username,
                   success_count, fail_count, outcomes, summary>>

\* lines 225-234: change_avatar, then exactly one of the two counters.
MainAction ==
    /\ mode = "seq" /\ pc = "action"
    /\ actionCalls' = [actionCalls EXCEPT ![i] = @ + 1]
    /\ \E o \in AvatarOutcomes :
         LET done == current_username[ManagerOf(i)] = i
             ok == done /\ ChangeAvatarReturns(o)
         IN /\ actionHist' =
                 [actionHist EXCEPT ![i] = IF done THEN o ELSE "rejected"]
            /\ IF ok
               THEN /\ success_count' = success_count + 1
                    /\ UNCHANGED fail_count
               ELSE /\ fail_count' = fail_count + 1
                    /\ UNCHANGED success_count
            /\ outcomes' = Append(outcomes, Outcome(i, ok))
            /\ pc' = AfterAction(ok)
    /\ UNCHANGED batchVars
    /\ UNCHANGED <<envVars, loginCalls, i, pending, driver, current_username,
                   summary>>

\* lines 236-238: finally: steam_manager.logout_all(); then the loop goes
\* on, or the pending KeyboardInterrupt leaves main.
MainLogout ==
    /\ mode = "seq" /\ pc = "logout"
    /\ \E q \in QuitOutcomes :
         LET m == ManagerOf(i)
             r == LogoutAll(driver[m], current_username[m], q) IN
         /\ driver' = [driver EXCEPT ![m] = r[1]]
         /\ current_username' = [current_username EXCEPT ![m] = r[2]]
    /\ pc' = AfterFinally(pending, i)
    /\ i' = IF pc' = "summary" THEN i + 1 ELSE i
    /\ UNCHANGED batchVars
    /\ UNCHANGED <<envVars, callVars, pending, success_count, fail_count,
                   outcomes, summary>>

\* lines 241-251: the delay between two accounts.
MainDelay ==
    /\ mode = "seq" /\ pc = "delay"
    /\ i' = i + 1
    /\ pc' = "new"
    /\ UNCHANGED batchVars
    /\ UNCHANGED <<envVars, callVars, pending, driver, current_username,
                   success_count, fail_count, outcomes, summary>>

\* lines 253-261: the final statistics.
MainSummary ==
    /\ mode = "seq" /\ pc = "summary"
    /\ summary' = <<[total |-> NAccounts, succeeded |-> success_count,
                     failed |-> fail_count,
                     rate |-> RateTenths(success_count, NAccounts)]>>
    /\ pc' = "done"
    /\ UNCHANGED batchVars
    /\ UNCHANGED <<envVars, callVars, i, pending, driver, current_username,
                   success_count, fail_count, outcomes>>

\* KeyboardInterrupt while main runs. Inside the try block (during login,
\* the sleep or change_avatar) it unwinds through the finally block; during
\* driver.quit() it leaves logout_all at once (it is no Exception); between
\* two accounts it leaves main directly.
MainInterrupt ==
    /\ mode = "seq" /\ pending = "none"
    /\ pc \in {"login", "sleep", "action", "logout", "delay"}
    /\ pending' = "interrupt"
    /\ pc' = IF pc \in {"login", "sleep", "action"} THEN "logout"
             ELSE "interrupted"
    /\ loginCalls' = [loginCalls EXCEPT ![i] = IF pc = "login" THEN @ + 1 ELSE @]
    /\ actionCalls' = [actionCalls EXCEPT ![i] = IF pc = "action" THEN @ + 1 ELSE @]
    /\ actionHist' = [actionHist EXCEPT ![i] = IF pc = "action" THEN "interrupted" ELSE @]
    /\ \E d \in DriverInitOutcomes :
         driver' = [driver EXCEPT ![ManagerOf(i)] =
                       IF pc = "login" /\ d = "up" THEN "open" ELSE @]
    /\ UNCHANGED batchVars
    /\ UNCHANGED <<envVars, i, current_username, success_count, fail_count,
                   outcomes, summary>>

\* __main__, lines 264-269: main returned or the KeyboardInterrupt was
\* caught; the process exits and the last manager is dropped (__del__).
MainExit ==
    /\ mode = "seq" /\ pc \in {"done", "interrupted"}
    /\ LET a == ManagerOf(IF i <= NAccounts THEN i ELSE NAccounts) IN
       \E q \in QuitOutcomes :
         LET r == Del(driver[a], current_username[a], q) IN
         /\ driver' = [driver EXCEPT ![a] = r[1]]
         /\ current_username' = [current_username EXCEPT ![a] = r[2]]
    /\ pc' = "exited"
    /\ UNCHANGED batchVars
    /\ UNCHANGED <<envVars, callVars, i, pending, success_count, fail_count,
                   outcomes, summary>>

\* ---------------------------------------------------- SteamPointsManager
\* What aiohttp.ClientSession(...) and session.close() can do.
CreateOutcomes == {"ok", "raises"}
CloseOutcomes == {"ok", "raises"}

\* get_points_balance: -1 is None (an error), else the points.
BalanceOutcomes == {-1, 0, 2}

\* get_available_gifts: the costs of the gifts, sorted; <<>> also on error.
GiftLists == { <<>>, <<1>>, <<1, 2>>, <<1, 3>>, <<3>> }

SendOutcomes == {"sent", "failed"}

\* SteamPointsManager.login: a dict when dologin answered success, else None.
PointsLoginReturnsAlways(o) == TRUE
PointsLoginReturns(o) == o = "ok"

\* find_best_gift: the dearest gift that costs at most the balance; 0 is None.
FindBestGiftOfAll(points_balance, gs) ==
    IF gs = <<>> THEN 0
    ELSE CHOOSE c \in { gs[k] : k \in 1..Len(gs) } :
           \A k \in 1..Len(gs) : gs[k] <= c

FindBestGift(points_balance, gs) ==
    LET affordable == { k \in 1..Len(gs) : gs[k] <= points_balance } IN
    IF affordable = {} THEN 0
    ELSE CHOOSE c \in { gs[k] : k \in affordable } :
           \A k \in affordable : gs[k] <= c

\* process_account, lines 350-356: the result dict as first built; the
\* username of task t's account is t.
\* error "" is None, gift_sent 0 is None, else the cost of the gift.
NewResult(username) ==
    [username |-> username, success |-> FALSE, points_balance |-> 0,
     gift_sent |-> 0, error |-> ""]

NoResult == <<>>

\* asyncio.Semaphore: acquire passes while the value is positive.
SemAlwaysFree(v) == TRUE
SemFree(v) == v > 0

\* "async with semaphore: async with SteamPointsManager() as manager": the
\* permit is taken, then the session is created (__aenter__); if creating it
\* raises, the permit is given back and the task ends with the exception.
\* gather starts the tasks in the order of the accounts and the semaphore
\* wakes its waiters first come, first served.
TaskEnter(t) ==
    /\ mode = "batch" /\ bpc = "gather" /\ tpc[t] = "wait"
    /\ \A u \in Tasks : u < t => tpc[u] # "wait"
    /\ SemFree(sem)
    /\ \E c \in CreateOutcomes :
         IF c = "ok"
         THEN /\ sem' = sem - 1
              /\ holds' = [holds EXCEPT ![t] = TRUE]
              /\ session' = [session EXCEPT ![t] = "open"]
              /\ tpc' = [tpc EXCEPT ![t] = "login"]
         ELSE /\ tpc' = [tpc EXCEPT ![t] = "raised"]
              /\ UNCHANGED <<sem, holds, session>>
    /\ UNCHANGED <<envVars, callVars, seqVars, max_concurrent, result, gifts, best,
                   paReturns, bpc, results, stats>>

\* process_account returns its result dict: the session is closed next.
Return(t, r) ==
    /\ result' = [result EXCEPT ![t] = r]
    /\ paReturns' = [paReturns EXCEPT ![t] = @ + 1]
    /\ tpc' = [tpc EXCEPT ![t] = "close"]

\* process_account, lines 360-368: login, then the steam id.
TaskLogin(t) ==
    /\ mode = "batch" /\ bpc = "gather" /\ tpc[t] = "login"
    /\ loginCalls' = [loginCalls EXCEPT ![t] = @ + 1]
    /\ LET o == ScriptAt(script[t], loginCalls[t] + 1) IN
       IF ~PointsLoginReturns(o)
       THEN Return(t, [NewResult(t) EXCEPT !.error = "auth"])
       ELSE \E steamid \in BOOLEAN :
              IF ~steamid
              THEN Return(t, [NewResult(t) EXCEPT !.error = "steamid"])
              ELSE /\ result' = [result EXCEPT ![t] = NewResult(t)]
                   /\ tpc' = [tpc EXCEPT ![t] = "balance"]
                   /\ UNCHANGED paReturns
    /\ UNCHANGED <<envVars, actionCalls, actionHist, seqVars, max_concurrent,
                   sem, holds, session, gifts, best, bpc, results, stats>>

\* process_account, lines 371-380: the balance.
TaskBalance(t) ==
    /\ mode = "batch" /\ bpc = "gather" /\ tpc[t] = "balance"
    /\ \E b \in BalanceOutcomes :
         IF b = -1
         THEN Return(t, [result[t] EXCEPT !.error = "balance"])
         ELSE IF b = 0
         THEN Return(t, [result[t] EXCEPT !.points_balance = b, !.error = "zero"])
         ELSE /\ result' = [result EXCEPT ![t].points_balance = b]
              /\ tpc' = [tpc EXCEPT ![t] = "gifts"]
              /\ UNCHANGED paReturns
    /\ UNCHANGED <<envVars, callVars, seqVars, max_concurrent, sem, holds,
                   session, gifts, best, bpc, results, stats>>

\* process_account, lines 383-392: the gift list and the best gift.
TaskGifts(t) ==
    /\ mode = "batch" /\ bpc = "gather" /\ tpc[t] = "gifts"
    /\ \E gs \in GiftLists :
         LET g == FindBestGift(result[t].points_balance, gs) IN
         IF gs = <<>>
         THEN Return(t, [result[t] EXCEPT !.error = "gifts"])
              /\ UNCHANGED <<gifts, best>>
         ELSE IF g = 0
         THEN Return(t, [result[t] EXCEPT !.error = "nogift"])
              /\ UNCHANGED <<gifts, best>>
         ELSE /\ gifts' = [gifts EXCEPT ![t] = gs]
              /\ best' = [best EXCEPT ![t] = g]
              /\ tpc' = [tpc EXCEPT ![t] = "send"]
              /\ UNCHANGED <<result, paReturns>>
    /\ UNCHANGED <<envVars, callVars, seqVars, max_concurrent, sem, holds,
                   session, bpc, results, stats>>

\* process_account, lines 403-412: the result after send_gift answered o for
\* the gift of cost g: success and the gift, or the reason of the failure.
SentResultWithoutGift(r, o, g) ==
    IF o = "sent" THEN [r EXCEPT !.success = TRUE]
    ELSE [r EXCEPT !.error = "send"]
SentResult(r, o, g) ==
    IF o = "sent" THEN [r EXCEPT !.success = TRUE, !.gift_sent = g]
    ELSE [r EXCEPT !.error = "send"]

\* process_account, lines 395-412: send the gift, once.
TaskSend(t) ==
    /\ mode = "batch" /\ bpc = "gather" /\ tpc[t] = "send"
    /\ actionCalls' = [actionCalls EXCEPT ![t] = @ + 1]
    /\ \E o \in SendOutcomes :
         /\ actionHist' = [actionHist EXCEPT ![t] = o]
         /\ Return(t, SentResult(result[t], o, best[t]))
    /\ gifts' = [gifts EXCEPT ![t] = <<>>]
    /\ best' = [best EXCEPT ![t] = 0]
    /\ UNCHANGED <<envVars, loginCalls, seqVars, max_concurrent, sem, holds,
                   session, bpc, results, stats>>

\* __aexit__ -> close(), then the semaphore's own exit: session.close() and
\* session = None, or close raises and the field keeps the session; either
\* way the permit is released.
TaskClose(t) ==
    /\ mode = "batch" /\ bpc = "gather" /\ tpc[t] = "close"
    /\ \E c \in CloseOutcomes :
         IF c = "ok"
         THEN /\ session' = [session EXCEPT ![t] = "none"]
              /\ tpc' = [tpc EXCEPT ![t] = "done"]
         ELSE /\ session' = session
              /\ tpc' = [tpc EXCEPT ![t] = "raised"]
    /\ sem' = sem + 1
    /\ holds' = [holds EXCEPT ![t] = FALSE]
    /\ UNCHANGED <<envVars, callVars, seqVars, max_concurrent, result, gifts, best,
                   paReturns, bpc, results, stats>>

\* ------------------------------------------------------- steam_gifts.py

\* print_stats, line 58: "if total > 0:" in front of the division.
RateGuardAlways(total) == TRUE
RateGuard(total) == total > 0

\* print_stats, lines 41-60: the rate is printed only when total > 0
\* (-1: not printed).
PrintStatsFailedAll(rs) ==
    LET total == Len(rs)
        successful == Cardinality({ k \in 1..Len(rs) : rs[k].success })
    IN [total |-> total, succeeded |-> successful, failed |-> total,
        rate |-> IF RateGuard(total) THEN RateTenths(successful, total) ELSE -1]
PrintStats(rs) ==
    LET total == Len(rs)
        successful == Cardinality({ k \in 1..Len(rs) : rs[k].success })
    IN [total |-> total, succeeded |-> successful, failed |-> total - successful,
        rate |-> IF RateGuard(total) THEN RateTenths(successful, total) ELSE -1]

\* asyncio.gather(*tasks): the list of the tasks' results in the order in
\* which the awaitables were given, which is the order of the accounts.
GatherBackwards(res) == [t \in Tasks |-> res[NTasks + 1 - t]]
Gather(res) == [t \in Tasks |-> res[t]]

\* asyncio.gather(*tasks) returns: every task has returned its result.
GatherReturn ==
    /\ mode = "batch" /\ bpc = "gather"
    /\ \A t \in Tasks : tpc[t] = "done"
    /\ results' = Gather(result)
    /\ bpc' = "results"
    /\ UNCHANGED <<envVars, callVars, seqVars, max_concurrent, sem, holds, tpc,
                   session, result, gifts, best, paReturns, stats>>

\* main_async, lines 221-239: the results and print_stats.
BatchStats ==
    /\ mode = "batch" /\ bpc = "results"
    /\ stats' = <<PrintStats(results)>>
    /\ bpc' = "done"
    /\ UNCHANGED <<envVars, callVars, seqVars, max_concurrent, sem, holds, tpc,
                   session, result, gifts, best, paReturns, results>>

\* asyncio.run ends while tasks are pending: each of them is cancelled. The
\* CancelledError unwinds the task's "async with" blocks: a task inside
\* process_account closes its session and releases its permit; a task
\* cancelled while it awaits session.close() keeps the session in its field.
Cancelled(p) == IF p \in {"done", "raised"} THEN p ELSE "cancelled"

Teardown ==
    /\ tpc' = [t \in Tasks |-> Cancelled(tpc[t])]
    /\ session' = [t \in Tasks |->
                     IF tpc[t] \in {"login", "balance", "gifts", "send"}
                     THEN "none" ELSE session[t]]
    /\ holds' = [t \in Tasks |-> FALSE]
    /\ sem' = max_concurrent
    /\ gifts' = [t \in Tasks |-> <<>>]
    /\ best' = [t \in Tasks |-> 0]

\* asyncio.gather re-raises the first exception of a task: main_async
\* reports a critical error (lines 244-247) and returns 1 without results;
\* asyncio.run then cancels the tasks still pending.
GatherRaise ==
    /\ mode = "batch" /\ bpc = "gather"
    /\ \E t \in Tasks : tpc[t] = "raised"
    /\ bpc' = "failed"
    /\ Teardown
    /\ UNCHANGED <<envVars, callVars, seqVars, max_concurrent, result,
                   paReturns, results, stats>>

\* The user's interrupt while gather is awaited: main_async is left without
\* results (lines 241-243, or through asyncio.run), the pending tasks are
\* cancelled.
BatchInterrupt ==
    /\ mode = "batch" /\ bpc = "gather"
    /\ bpc' = "stopped"
    /\ Teardown
    /\ UNCHANGED <<envVars, callVars, seqVars, max_concurrent, result,
                   paReturns, results, stats>>

\* ------------------------------------------- the result aggregation alone
\* The statistics of both programs, run on every list of per-account
\* outcomes up to MaxOutcomes: the loop counters and the final statistics of
\* main ("main"), main_async from its guard to print_stats ("gifts"), and
\* print_stats called on any list, the empty one included ("stats").

\* What one account ends with: the login failed, the action failed, or both
\* succeeded.
AccountOutcomes == {"loginfail", "actionfail", "ok"}

RECURSIVE SeqsUpTo(_, _)
SeqsUpTo(S, n) ==
    IF n = 0 THEN { <<>> }
    ELSE LET shorter == SeqsUpTo(S, n - 1)
         IN shorter \cup { Append(q, x) : q \in { r \in shorter : Len(r) = n - 1 },
                                          x \in S }

AggOff == [pc |-> "off"]

\* main.py, line 163 / steam_gifts.py, line 200: "if not accounts: return".
NoAccounts(accounts) == Len(accounts) = 0

\* The result dicts process_account returns for these outcomes.
ResultsOf(accounts) ==
    [k \in 1..Len(accounts) |-> [success |-> accounts[k] = "ok"]]

\* main, lines 163-167 and 173-177 / main_async, lines 200-202.
AggGuard ==
    /\ agg.pc = "guard"
    /\ agg' = [agg EXCEPT !.pc = IF NoAccounts(agg.accounts) THEN "returned"
                                 ELSE IF agg.kind = "main" THEN "loop"
                                 ELSE "stats"]
    /\ UNCHANGED <<orchVars, api, gen, par, ld>>

\* main, lines 206-234: one iteration of the loop counts the account in
\* exactly one of the two counters.
AggMainStep ==
    /\ agg.pc = "loop"
    /\ IF agg.i > Len(agg.accounts)
       THEN agg' = [agg EXCEPT !.pc = "summary"]
       ELSE agg' = [agg EXCEPT
                !.i = @ + 1,
                !.success_count = IF agg.accounts[agg.i] = "ok" THEN @ + 1 ELSE @,
                !.fail_count = IF agg.accounts[agg.i] = "ok" THEN @ ELSE @ + 1]
    /\ UNCHANGED <<orchVars, api, gen, par, ld>>

\* main, lines 253-259: success_count / len(accounts) * 100, unguarded.
AggMainSummary ==
    /\ agg.pc = "summary"
    /\ LET total == Len(agg.accounts) IN
       IF total = 0
       THEN agg' = [agg EXCEPT !.pc = "crashed", !.den = @ \cup {0}]
       ELSE agg' = [agg EXCEPT
                !.pc = "done",
                !.den = @ \cup {total},
                !.out = <<[total |-> total,
                           succeeded |-> agg.success_count,
                           failed |-> agg.fail_count,
                           rate |-> RateTenths(agg.success_count, total)]>>]
    /\ UNCHANGED <<orchVars, api, gen, par, ld>>

\* print_stats(results), lines 34-62.
AggPrintStats ==
    /\ agg.pc = "stats"
    /\ LET rs == ResultsOf(agg.accounts)
           total == Len(rs)
       IN IF RateGuard(total) /\ total = 0
          THEN agg' = [agg EXCEPT !.pc = "crashed", !.den = @ \cup {0}]
          ELSE agg' = [agg EXCEPT
                   !.pc = "done",
                   !.den = IF RateGuard(total) THEN @ \cup {total} ELSE @,
                   !.out = <<PrintStats(rs)>>]
    /\ UNCHANGED <<orchVars, api, gen, par, ld>>

\* --------------------------------------------- the two managers taken alone
\* One SteamManager and one SteamPointsManager on which a caller makes any
\* call in any order: what their guards let through.

ApiUsers == 1..NUsers

ApiOff == [op |-> "off"]
GenOff == [pc |-> "off"]

\* What the remote login flow answers to one login.
LoginAnswers == { s[k] : s \in LoginScripts, k \in {1} } \cup {"transient"}

\* The call just made: its name and manager, what it returned, whether it
\* talked to the remote service, whether it raised, and whether it invoked
\* driver.quit() / session.close().
Did(op, mgr, ret, remote, raised, released) ==
    [op |-> op, mgr |-> mgr, ret |-> ret, remote |-> remote,
     raised |-> raised, released |-> released]

Fields == <<api.driver, api.current_username, api.session>>

\* steam_manager.py, lines 465-467 and 551-553: the guard of change_avatar
\* and of update_profile.
NotAuthorizedNever(cur, username) == FALSE
NotAuthorized(cur, username) == cur # username

\* SteamManager.login(username, ...), lines 186-452: _init_driver raises
\* inside the try (False, nothing was sent); otherwise the flow runs and
\* current_username is set exactly on success.
ApiLogin(username) ==
    /\ api.op # "off"
    /\ \E d \in DriverInitOutcomes, o \in LoginAnswers :
         LET up == api.driver = "open" \/ d = "up"
             ok == up /\ LoginReturns(o)
         IN api' = [api EXCEPT
                !.driver = IF up THEN "open" ELSE @,
                !.current_username = LoginSets(@, username, ok),
                !.sm_state = IF ok THEN "Authenticated" ELSE "AuthFailed",
                !.arg = username, !.args_ok = TRUE,
                !.op = "login", !.prev = api.op, !.pre = Fields,
                !.last = Did("login", "sm", ok, up, FALSE, FALSE)]
    /\ UNCHANGED <<orchVars, agg, gen, par, ld>>

\* SteamManager.change_avatar(username, avatar_path), lines 455-538, and
\* update_profile, lines 540-830: False before any use of the driver when
\* the guard or the argument check fails; otherwise the page is driven.
ApiAction(op, username) ==
    /\ api.op # "off"
    /\ \E args_ok \in BOOLEAN, o \in AvatarOutcomes :
         LET rejected == NotAuthorized(api.current_username, username)
                         \/ ~args_ok
         IN api' = [api EXCEPT
                !.arg = username, !.args_ok = args_ok,
                !.op = op, !.prev = api.op, !.pre = Fields,
                !.last = Did(op, "sm",
                             ~rejected /\ ChangeAvatarReturns(o),
                             ~rejected, FALSE, FALSE)]
    /\ UNCHANGED <<orchVars, agg, gen, par, ld>>

\* SteamManager.logout(username), lines 832-844.
ApiLogout(username) ==
    /\ api.op # "off"
    /\ LET mine == api.current_username = username
       IN api' = [api EXCEPT
              !.current_username = IF mine THEN 0 ELSE @,
              !.sm_state = IF mine THEN "LoggedOut" ELSE @,
              !.arg = username, !.args_ok = TRUE,
                !.op = "logout", !.prev = api.op, !.pre = Fields,
              !.last = Did("logout", "sm", TRUE, mine /\ api.driver = "open",
                           FALSE, FALSE)]
    /\ UNCHANGED <<orchVars, agg, gen, par, ld>>

\* SteamManager.logout_all(), lines 846-856.
ApiLogoutAll ==
    /\ api.op # "off"
    /\ \E q \in QuitOutcomes :
         LET r == LogoutAll(api.driver, api.current_username, q)
         IN api' = [api EXCEPT
                !.driver = r[1],
                !.current_username = r[2],
                !.sm_state = "LoggedOut",
                !.arg = 0, !.args_ok = TRUE,
                !.op = "logout_all", !.prev = api.op, !.pre = Fields,
                !.last = Did("logout_all", "sm", TRUE, FALSE, FALSE,
                             api.driver = "open")]
    /\ UNCHANGED <<orchVars, agg, gen, par, ld>>

\* SteamPointsManager.login / get_points_balance / send_gift, lines 113-232
\* and 288-330: each begins with _init_session(), which opens a session when
\* there is none, and then sends its request; none looks at an earlier login.
ApiPoints(op) ==
    /\ api.op # "off"
    /\ \E cr \in CreateOutcomes, ok \in BOOLEAN :
         LET raises == api.session = "none" /\ cr = "raises"
             ret == ~raises /\ ok
         IN api' = [api EXCEPT
                !.session = IF raises THEN @ ELSE "open",
                !.pm_state = IF op = "points_login" /\ ~raises
                             THEN (IF ret THEN "Authenticated" ELSE "AuthFailed")
                             ELSE @,
                !.arg = 0, !.args_ok = TRUE,
                !.op = op, !.prev = api.op, !.pre = Fields,
                !.last = Did(op, "pm", ret, ~raises, raises, FALSE)]
    /\ UNCHANGED <<orchVars, agg, gen, par, ld>>

\* SteamPointsManager.close(), lines 107-111: session.close() may raise, and
\* then the exception leaves close() with the session still in its field.
ApiClose ==
    /\ api.op # "off"
    /\ \E c \in CloseOutcomes :
         LET opened == api.session = "open"
             raises == opened /\ c = "raises"
         IN api' = [api EXCEPT
                !.session = IF raises THEN @ ELSE "none",
                !.pm_state = IF raises THEN @ ELSE "LoggedOut",
                !.arg = 0, !.args_ok = TRUE,
                !.op = "close", !.prev = api.op, !.pre = Fields,
                !.last = Did("close", "pm", ~raises, FALSE, raises, opened)]
    /\ UNCHANGED <<orchVars, agg, gen, par, ld>>

\* ----------------------------------------------------- SteamGuardGenerator
\* A secret is a string over the base64 alphabet, "=" and other characters.
\* A character is written as its 6-bit value (0..63), PAD for "=" and JUNK
\* for a character outside the alphabet.
PAD == 64
JUNK == 65
SecretChars == {5, 62, PAD, JUNK}

\* int(time.time()) at the moment of a call, in seconds.
Clock == {0, 29, 30}

\* generate_code, lines 44-46: right-pad with "=" to a multiple of 4.
PadNever(shared_secret) == shared_secret
Pad(shared_secret) ==
    LET missing_padding == Len(shared_secret) % 4
    IN IF missing_padding # 0
       THEN shared_secret \o [k \in 1..(4 - missing_padding) |-> PAD]
       ELSE shared_secret

\* base64.b64decode(shared_secret), line 50, not validating: characters
\* outside the alphabet are skipped; "=" ends the data once the open quad
\* has its padding, and is skipped otherwise; the data must not end inside a
\* quad. quad_pos counts the characters of the open quad, leftchar holds its
\* bits not yet written, pads the "=" seen since the last data character.
RECURSIVE A2bBase64(_, _, _, _, _, _)
A2bBase64(s, k, quad_pos, leftchar, pads, out) ==
    IF k > Len(s) THEN [ok |-> quad_pos = 0, bytes |-> out]
    ELSE IF s[k] = PAD
    THEN IF quad_pos >= 2 /\ quad_pos + pads + 1 >= 4
         THEN [ok |-> TRUE, bytes |-> out]
         ELSE A2bBase64(s, k + 1, quad_pos, leftchar,
                        IF quad_pos >= 2 THEN pads + 1 ELSE pads, out)
    ELSE IF s[k] > PAD
    THEN A2bBase64(s, k + 1, quad_pos, leftchar, pads, out)
    ELSE CASE quad_pos = 0 -> A2bBase64(s, k + 1, 1, s[k], 0, out)
           [] quad_pos = 1 -> A2bBase64(s, k + 1, 2, s[k] % 16, 0,
                                        Append(out, leftchar * 4 + s[k] \div 16))
           [] quad_pos = 2 -> A2bBase64(s, k + 1, 3, s[k] % 4, 0,
                                        Append(out, leftchar * 16 + s[k] \div 4))
           [] OTHER -> A2bBase64(s, k + 1, 0, 0, 0,
                                 Append(out, leftchar * 64 + s[k]))

B64Decode(s) == A2bBase64(s, 1, 0, 0, 0, <<>>)

\* line 53: timestamp = int(time.time()) // 30
WindowIsTime(t) == t
Window(t) == t \div 30

\* lines 54-57: hmac.new(secret, struct.pack('>Q', timestamp), sha1).digest(),
\* 20 bytes. HMAC-SHA1 is a fixed function of the key and of the message; it
\* is stood for by one of three such functions: one that mixes key and
\* message, and the two with the least and the greatest digest.
HmacModels == {"mix", "low", "high"}

RECURSIVE KeySum(_)
KeySum(key) ==
    IF key = <<>> THEN 7
    ELSE (31 * KeySum(Tail(key)) + Head(key) + 1) % 65521

Hmac(h, key, timestamp) ==
    [j \in 1..20 |->
        CASE h = "low" -> 0
          [] h = "high" -> 255
          [] OTHER -> (KeySum(key) * 131 + timestamp * 197 + j * 89
                       + (((KeySum(key) + j) * (timestamp + 3)) % 251)) % 256]

\* lines 60-62: start = hmac_digest[19] & 0x0F; the four bytes from start,
\* big-endian, & 0x7FFFFFFF (the mask clears the top bit of the first byte).
FullCode(hmac_digest) ==
    LET start == hmac_digest[20] % 16
    IN (hmac_digest[start + 1] % 128) * 16777216
       + hmac_digest[start + 2] * 65536
       + hmac_digest[start + 3] * 256
       + hmac_digest[start + 4]

\* line 65
SteamChars == <<"2", "3", "4", "5", "6", "7", "8", "9", "B", "C", "D", "F", "G",
                "H", "J", "K", "M", "N", "P", "Q", "R", "T", "V", "W", "X", "Y">>

\* lines 68-70: n times code += steam_chars[full_code % len(steam_chars)];
\* full_code //= len(steam_chars)
RECURSIVE Emit(_, _)
Emit(full_code, n) ==
    IF n = 0 THEN <<>>
    ELSE <<SteamChars[(full_code % Len(SteamChars)) + 1]>>
         \o Emit(full_code \div Len(SteamChars), n - 1)

\* lines 66-70: for _ in range(5)
EncodeCodeSkipsDigit(full_code) == Emit(full_code \div 26, 5)
EncodeCode(full_code) == Emit(full_code, 5)

\* generate_code, lines 59-62, where it gets that far: the masked value the
\* code is made from; -1 when the call returns "" before.
FullCodeOf(shared_secret, t, h) ==
    LET secret == B64Decode(Pad(shared_secret))
    IN IF shared_secret = <<>> \/ ~secret.ok THEN -1
       ELSE FullCode(Hmac(h, secret.bytes, Window(t)))

\* SteamGuardGenerator.generate_code of steam_manager.py, lines 27-77, called
\* when the clock reads t: "" (<<>>) for an empty secret and whenever
\* anything in the try block raises.
GenerateCode(shared_secret, t, h) ==
    IF shared_secret = <<>> THEN <<>>
    ELSE LET secret == B64Decode(Pad(shared_secret))
         IN IF ~secret.ok THEN <<>>
            ELSE EncodeCode(FullCode(Hmac(h, secret.bytes, Window(t))))

\* SteamGuardGenerator.generate_code of steam_points_manager.py, lines 35-76.
PointsGenerateCodeUnpadded(shared_secret, t, h) ==
    IF Len(shared_secret) = 0 THEN <<>>
    ELSE LET secret == B64Decode(shared_secret)
             timestamp == t \div 30
         IN IF ~secret.ok THEN <<>>
            ELSE Emit(FullCode(Hmac(h, secret.bytes, timestamp)), 5)

PointsGenerateCode(shared_secret, t, h) ==
    IF Len(shared_secret) = 0 THEN <<>>
    ELSE LET missing_padding == Len(shared_secret) % 4
             padded == IF missing_padding # 0
                       THEN shared_secret \o [k \in 1..(4 - missing_padding) |-> PAD]
                       ELSE shared_secret
             secret == B64Decode(padded)
             timestamp == t \div 30
         IN IF ~secret.ok THEN <<>>
            ELSE Emit(FullCode(Hmac(h, secret.bytes, timestamp)), 5)

\* What the remote login flow answers in the end.
GuardAnswers == {"ok", "rejected"}

\* Both generators are called twice on the same secret, at t1 and at t2.
GenRun1 ==
    /\ gen.pc = "run1"
    /\ gen' = [gen EXCEPT !.pc = "run2",
                          !.code1 = GenerateCode(gen.secret, gen.t1, gen.h),
                          !.points_code1 =
                              PointsGenerateCode(gen.secret, gen.t1, gen.h),
                          !.full_code = FullCodeOf(gen.secret, gen.t1, gen.h)]
    /\ UNCHANGED <<orchVars, agg, api, par, ld>>

GenRun2 ==
    /\ gen.pc = "run2"
    /\ gen' = [gen EXCEPT !.pc = "sm_login",
                          !.code2 = GenerateCode(gen.secret, gen.t2, gen.h),
                          !.points_code2 =
                              PointsGenerateCode(gen.secret, gen.t2, gen.h)]
    /\ UNCHANGED <<orchVars, agg, api, par, ld>>

\* SteamManager.login, lines 391-445, from the Steam Guard screen on: no
\* code field found: on to the URL check; a field and a secret: generate,
\* return False on an empty code, else type the code; a field and no
\* secret: return False. submitted is <<>> or holds the code that was sent.
GenSmLogin ==
    /\ gen.pc = "sm_login"
    /\ \E code_field \in BOOLEAN, a \in GuardAnswers :
         LET guard_code == GenerateCode(gen.secret, gen.t1, gen.h)
             r == IF ~code_field
                  THEN [ret |-> a = "ok", submitted |-> <<>>]
                  ELSE IF gen.secret # <<>>
                  THEN IF guard_code = <<>>
                       THEN [ret |-> FALSE, submitted |-> <<>>]
                       ELSE [ret |-> a = "ok", submitted |-> <<guard_code>>]
                  ELSE [ret |-> FALSE, submitted |-> <<>>]
         IN gen' = [gen EXCEPT !.pc = "pm_login", !.sm = r,
                               !.code_field = code_field]
    /\ UNCHANGED <<orchVars, agg, api, par, ld>>

\* SteamPointsManager.login, lines 159-190: with a secret the generated code
\* goes into login_data['twofactorcode'] as it is, then dologin is posted.
GenPmLogin ==
    /\ gen.pc = "pm_login"
    /\ \E a \in GuardAnswers :
         LET guard_code == PointsGenerateCode(gen.secret, gen.t1, gen.h)
         IN gen' = [gen EXCEPT
                !.pc = "done",
                !.pm = [ret |-> a = "ok",
                        submitted |-> IF gen.secret # <<>>
                                      THEN <<guard_code>> ELSE <<>>]]
    /\ UNCHANGED <<orchVars, agg, api, par, ld>>

\* --------------------------------- profile_manager.py / avatar_manager.py
\* A loaded list of n entries is <<1, ..., n>>: entry k is the k-th line of
\* the file (the k-th file of the avatars directory); 0 is the empty string.
Loaded(n) == [k \in 1..n |-> k]

Range(s) == { s[k] : k \in DOMAIN s }

ParOff == [pc |-> "off"]

\* get_unique_profile_data, lines 136-138: the index i % len(list) of account
\* i (0-based) in a list of n entries.
ProfileIndexStopsAtLast(idx, n) == IF idx < n THEN idx ELSE n - 1

ProfileIndex(idx, n) == idx % n

\* one field of one dict: list[i % len(list)] if list else ""
ProfileField(list, idx) ==
    IF list # <<>> THEN list[ProfileIndex(idx, Len(list)) + 1] ELSE 0

\* get_unique_profile_data(count), lines 117-141
GetUniqueProfileData(count, profile_names, real_names, about_me_texts) ==
    [k \in 1..count |->
        [profile_name |-> ProfileField(profile_names, k - 1),
         real_name |-> ProfileField(real_names, k - 1),
         about_me |-> ProfileField(about_me_texts, k - 1)]]

\* get_random_avatar, lines 58-70: random.choice(self.avatars), "" when no
\* avatar is loaded: every value the call can return.
GetRandomAvatar(avatars) == IF avatars # <<>> THEN Range(avatars) ELSE {0}

\* get_unique_avatars(count), lines 72-92: every list the call can return.
\* count > len(avatars): the loaded list, then one get_random_avatar() for
\* each entry still missing. Otherwise random.sample(avatars, count): count
\* entries taken at distinct positions.
GetUniqueAvatarsWithRepeats(count, avatars) ==
    [1..count -> GetRandomAvatar(avatars)]

GetUniqueAvatars(count, avatars) ==
    IF count > Len(avatars)
    THEN { avatars \o tail :
              tail \in [1..(count - Len(avatars)) -> GetRandomAvatar(avatars)] }
    ELSE { [k \in 1..count |-> avatars[pos[k]]] :
              pos \in { f \in [1..count -> 1..Len(avatars)] :
                          \A j, k \in 1..count : j # k => f[j] # f[k] } }

\* the call get_unique_profile_data(count)
ParProfile ==
    /\ par.pc = "profile"
    /\ par' = [par EXCEPT !.pc = "avatars",
                          !.profile_data = GetUniqueProfileData(par.count,
                              par.profile_names, par.real_names,
                              par.about_me_texts)]
    /\ UNCHANGED <<orchVars, agg, api, gen, ld>>

\* the call get_unique_avatars(count), main.py line 184
ParAvatars ==
    /\ par.pc = "avatars"
    /\ \E r \in GetUniqueAvatars(par.count, par.avatars) :
          par' = [par EXCEPT !.pc = "done", !.selected_avatars = r]
    /\ UNCHANGED <<orchVars, agg, api, gen, ld>>

\* ------------------------------------- account_manager.py / steam_gifts.py
\* The lines of a text accounts file after strip(): an empty line, a comment
\* (it starts with '#'), a line without ':' and the lines "username:password"
\* for the usernames 1..NUsers and two passwords.
AccountLine(u, p) == [kind |-> "account", username |-> u, password |-> p]

Lines ==
    { [kind |-> k, username |-> 0, password |-> 0] :
          k \in {"blank", "comment", "nocolon"} }
    \cup { AccountLine(u, p) : u \in 1..NUsers, p \in 1..2 }

LdOff == [pc |-> "off"]

\* load_accounts, lines 123-128: the account a line adds to self.accounts,
\* <<>> for a line that is skipped. Nothing looks at the accounts read so far.
ParseLine(line) ==
    IF line.kind = "account"
    THEN <<[username |-> line.username, password |-> line.password]>>
    ELSE <<>>

\* steam_gifts.py lines 193-197: the accounts whose username is not
\* recipient_login, in their order.
RECURSIVE AccountData(_, _)
AccountData(accounts, recipient_login) ==
    IF accounts = <<>> THEN <<>>
    ELSE (IF Head(accounts).username # recipient_login
          THEN <<Head(accounts)>> ELSE <<>>)
         \o AccountData(Tail(accounts), recipient_login)

\* load_accounts lines 91-93 and 120-122: a missing file returns [], else
\* the lines are read one after the other.
LdOpen ==
    /\ ld.pc = "open"
    /\ ld' = [ld EXCEPT !.pc = IF ld.exists THEN "lines" ELSE "loaded"]
    /\ UNCHANGED <<orchVars, agg, api, gen, par>>

\* one turn of the loop over the lines, lines 120-184
LdLine ==
    /\ ld.pc = "lines"
    /\ ld.line_num <= Len(ld.lines)
    /\ ld' = [ld EXCEPT !.line_num = @ + 1,
                        !.accounts = @ \o ParseLine(ld.lines[ld.line_num])]
    /\ UNCHANGED <<orchVars, agg, api, gen, par>>

\* line 187: return self.accounts
LdReturn ==
    /\ ld.pc = "lines"
    /\ ld.line_num > Len(ld.lines)
    /\ ld' = [ld EXCEPT !.pc = "loaded"]
    /\ UNCHANGED <<orchVars, agg, api, gen, par>>

\* main_async, lines 147-201: no account, no recipient, a recipient_login
\* that is not in the list or whose Steam ID cannot be fetched, or nothing
\* left after the filter: return 1. Otherwise account_data goes to
\* process_accounts_batch.
LdPrepare ==
    /\ ld.pc = "loaded"
    /\ \E fetched \in BOOLEAN :
          LET found == \E k \in DOMAIN ld.accounts :
                          ld.accounts[k].username = ld.recipient_login
              data == AccountData(ld.accounts, ld.recipient_login)
              stop == \/ ld.accounts = <<>>
                      \/ ~ld.recipient_steamid
                         /\ (ld.recipient_login = 0 \/ ~found \/ ~fetched)
                      \/ data = <<>>
          IN ld' = [ld EXCEPT !.pc = IF stop THEN "exit" ELSE "batch",
                              !.account_data = IF stop THEN <<>> ELSE data]
    /\ UNCHANGED <<orchVars, agg, api, gen, par>>

\* ------------------------------------------------------------------- Spec
Init ==
    /\ mode \in {"seq", "batch"}
    /\ script \in [Accts(mode) -> LoginScripts]
    /\ loginCalls = [a \in Accts(mode) |-> 0]
    /\ actionCalls = [a \in Accts(mode) |-> 0]
    /\ actionHist = [a \in Accts(mode) |-> ""]
    /\ i = 1
    /\ pc = "new"
    /\ pending = "none"
    /\ driver = [a \in Accounts |-> "none"]
    /\ current_username = [a \in Accounts |-> 0]
    /\ success_count = 0
    /\ fail_count = 0
    /\ outcomes = <<>>
    /\ summary = <<>>
    /\ max_concurrent \in (IF mode = "batch" THEN 1..MaxConcurrentBound ELSE {1})
    /\ sem = max_concurrent
    /\ holds = [t \in Tasks |-> FALSE]
    /\ tpc = [t \in Tasks |-> "wait"]
    /\ session = [t \in Tasks |-> "none"]
    /\ result = [t \in Tasks |-> NoResult]
    /\ gifts = [t \in Tasks |-> <<>>]
    /\ best = [t \in Tasks |-> 0]
    /\ paReturns = [t \in Tasks |-> 0]
    /\ bpc = "gather"
    /\ results = <<>>
    /\ stats = <<>>
    /\ agg = AggOff
    /\ api = ApiOff
    /\ gen = GenOff
    /\ par = ParOff
    /\ ld = LdOff

Next ==
    \/ MainNew
    \/ MainLogin
    \/ MainSleep
    \/ MainAction
    \/ MainLogout
    \/ MainDelay
    \/ MainSummary
    \/ MainInterrupt
    \/ MainExit
    \/ \E t \in Tasks : TaskEnter(t)
    \/ \E t \in Tasks : TaskLogin(t)
    \/ \E t \in Tasks : TaskBalance(t)
    \/ \E t \in Tasks : TaskGifts(t)
    \/ \E t \in Tasks : TaskSend(t)
    \/ \E t \in Tasks : TaskClose(t)
    \/ GatherReturn
    \/ GatherRaise
    \/ BatchStats
    \/ BatchInterrupt

Spec == Init /\ [][Next]_vars

\* The steps of the two programs themselves: the interpreter and the event
\* loop go on running and every remote call returns. The user's interrupt
\* is no such step: it may come, nothing makes it come.
Progress ==
    \/ MainNew
    \/ MainLogin
    \/ MainSleep
    \/ MainAction
    \/ MainLogout
    \/ MainDelay
    \/ MainSummary
    \/ MainExit
    \/ \E t \in Tasks : TaskEnter(t)
    \/ \E t \in Tasks : TaskLogin(t)
    \/ \E t \in Tasks : TaskBalance(t)
    \/ \E t \in Tasks : TaskGifts(t)
    \/ \E t \in Tasks : TaskSend(t)
    \/ \E t \in Tasks : TaskClose(t)
    \/ GatherReturn
    \/ GatherRaise
    \/ BatchStats

SpecLive == Init /\ [][Next]_vars /\ WF_vars(Progress)

\* Neither program runs: the state of the orchestration variables in the
\* specifications of the parts taken alone.
Idle ==
    /\ mode = "off"
    /\ script = <<>>
    /\ loginCalls = <<>>
    /\ actionCalls = <<>>
    /\ actionHist = <<>>
    /\ i = 1
    /\ pc = "off"
    /\ pending = "none"
    /\ driver = [a \in Accounts |-> "none"]
    /\ current_username = [a \in Accounts |-> 0]
    /\ success_count = 0
    /\ fail_count = 0
    /\ outcomes = <<>>
    /\ summary = <<>>
    /\ max_concurrent = 1
    /\ sem = 1
    /\ holds = [t \in Tasks |-> FALSE]
    /\ tpc = [t \in Tasks |-> "off"]
    /\ session = [t \in Tasks |-> "none"]
    /\ result = [t \in Tasks |-> NoResult]
    /\ gifts = [t \in Tasks |-> <<>>]
    /\ best = [t \in Tasks |-> 0]
    /\ paReturns = [t \in Tasks |-> 0]
    /\ bpc = "off"
    /\ results = <<>>
    /\ stats = <<>>

AggInit ==
    /\ Idle
    /\ api = ApiOff
    /\ gen = GenOff
    /\ par = ParOff
    /\ ld = LdOff
    /\ \E kind \in {"main", "gifts", "stats"},
          accounts \in SeqsUpTo(AccountOutcomes, MaxOutcomes) :
          agg = [kind |-> kind, accounts |-> accounts, i |-> 1,
                 success_count |-> 0, fail_count |-> 0,
                 pc |-> IF kind = "stats" THEN "stats" ELSE "guard",
                 out |-> <<>>, den |-> {}]

AggNext ==
    \/ AggGuard
    \/ AggMainStep
    \/ AggMainSummary
    \/ AggPrintStats

SpecAgg == AggInit /\ [][AggNext]_vars

\* Both managers as their constructors leave them.
ApiInit ==
    /\ Idle
    /\ agg = AggOff
    /\ gen = GenOff
    /\ par = ParOff
    /\ ld = LdOff
    /\ api = [driver |-> "none", current_username |-> 0, session |-> "none",
              sm_state |-> "Unauthenticated", pm_state |-> "Unauthenticated",
              arg |-> 0, args_ok |-> TRUE,
              op |-> "new", prev |-> "new", pre |-> <<"none", 0, "none">>,
              last |-> Did("new", "sm", TRUE, FALSE, FALSE, FALSE)]

ApiNext ==
    \/ \E u \in ApiUsers : ApiLogin(u)
    \/ \E u \in ApiUsers : ApiAction("change_avatar", u)
    \/ \E u \in ApiUsers : ApiAction("update_profile", u)
    \/ \E u \in ApiUsers : ApiLogout(u)
    \/ ApiLogoutAll
    \/ ApiPoints("points_login")
    \/ ApiPoints("get_points_balance")
    \/ ApiPoints("send_gift")
    \/ ApiClose

SpecApi == ApiInit /\ [][ApiNext]_vars

GenInit ==
    /\ Idle
    /\ agg = AggOff
    /\ api = ApiOff
    /\ par = ParOff
    /\ ld = LdOff
    /\ \E secret \in SeqsUpTo(SecretChars, MaxSecretLen),
          t1 \in Clock, t2 \in Clock, h \in HmacModels :
          /\ t1 <= t2
          /\ gen = [secret |-> secret, t1 |-> t1, t2 |-> t2, h |-> h,
                    pc |-> "run1", code1 |-> <<>>, code2 |-> <<>>,
                    points_code1 |-> <<>>, points_code2 |-> <<>>,
                    full_code |-> -1, code_field |-> FALSE,
                    sm |-> [ret |-> FALSE, submitted |-> <<>>],
                    pm |-> [ret |-> FALSE, submitted |-> <<>>]]

GenNext ==
    \/ GenRun1
    \/ GenRun2
    \/ GenSmLogin
    \/ GenPmLogin

SpecGen == GenInit /\ [][GenNext]_vars

\* The lists as load_profile_names, load_real_names, load_about_me_texts and
\* load_avatars left them, and the number of accounts.
ParInit ==
    /\ Idle
    /\ agg = AggOff
    /\ api = ApiOff
    /\ gen = GenOff
    /\ ld = LdOff
    /\ \E count \in 0..MaxCount, np \in 0..MaxSets, nr \in 0..MaxSets,
          na \in 0..MaxSets, nv \in 0..MaxSets :
          par = [pc |-> "profile", count |-> count,
                 profile_names |-> Loaded(np), real_names |-> Loaded(nr),
                 about_me_texts |-> Loaded(na), avatars |-> Loaded(nv),
                 profile_data |-> <<>>, selected_avatars |-> <<>>]

ParNext ==
    \/ ParProfile
    \/ ParAvatars

SpecPar == ParInit /\ [][ParNext]_vars

\* An accounts file, missing or with up to MaxLines lines, and the
\* --recipient-steamid / --recipient-login arguments (0: not given).
LdInit ==
    /\ Idle
    /\ agg = AggOff
    /\ api = ApiOff
    /\ gen = GenOff
    /\ par = ParOff
    /\ \E exists \in BOOLEAN, lines \in SeqsUpTo(Lines, MaxLines),
          recipient_steamid \in BOOLEAN, recipient_login \in 0..NUsers :
          /\ ~exists => lines = <<>>
          /\ ld = [pc |-> "open", exists |-> exists, lines |-> lines,
                   recipient_steamid |-> recipient_steamid,
                   recipient_login |-> recipient_login,
                   line_num |-> 1, accounts |-> <<>>, account_data |-> <<>>]

LdNext ==
    \/ LdOpen
    \/ LdLine
    \/ LdReturn
    \/ LdPrepare

SpecLd == LdInit /\ [][LdNext]_vars

\* ----------------------------------------------------------------- claims

\* The iteration of main for account a has been left normally.
SeqFinished(a) ==
    /\ mode = "seq"
    /\ \/ a < i
       \/ a = i /\ pc = "delay"
       \/ pc \in {"summary", "done"}
       \/ pc = "exited" /\ pending = "none"

\* The number of outcomes counted for account a by main.
Counted(a) == Cardinality({ k \in 1..Len(outcomes) : outcomes[k].acc = a })

\* An outcome has been recorded for account a; it is a success.
Recorded(a) == IF mode = "seq" THEN Counted(a) >= 1 ELSE paReturns[a] >= 1
RecordedOk(a) ==
    IF mode = "seq"
    THEN \E k \in 1..Len(outcomes) : outcomes[k].acc = a /\ outcomes[k].ok
    ELSE result[a] # NoResult /\ result[a].success

\* Login succeeded for account a, as far as the orchestrator acted on it.
LoginPassed(a) ==
    IF mode = "seq" THEN actionCalls[a] >= 1
    ELSE result[a] # NoResult /\ result[a].error # "auth"

TaskEnded(t) == tpc[t] \in {"done", "raised", "cancelled"}

\* C1: every session acquired for an account is logged out on every exit
\* path of that account's processing: once main has left the iteration of
\* account a, the browser of a's manager is released; once a task of the
\* batch has ended, its aiohttp session is released.
C1_SessionLoggedOutOnEveryExit ==
    /\ mode = "seq" => \A a \in Accounts : SeqFinished(a) => driver[a] = "none"
    /\ mode = "batch" => \A t \in Tasks : TaskEnded(t) => session[t] = "none"

\* C2: exactly one outcome per credential processed: in the sequential loop
\* the two counters add up to the number of iterations that counted, each
\* account is counted at most once and every finished account exactly once;
\* process_account returns one result record per call.
C2_OneOutcomePerCredential ==
    /\ mode = "seq" =>
         /\ success_count + fail_count = Len(outcomes)
         /\ \A a \in Accounts : Counted(a) <= 1
         /\ \A a \in Accounts : SeqFinished(a) => Counted(a) = 1
         /\ pc \in {"new", "login", "sleep", "action"} /\ pending = "none"
              => success_count + fail_count = i - 1
         /\ pc \in {"logout", "delay"} /\ pending = "none"
              => success_count + fail_count = i
         /\ pc \in {"summary", "done"} => success_count + fail_count = NAccounts
    /\ mode = "batch" =>
         \A t \in Tasks :
           /\ paReturns[t] <= 1
           /\ tpc[t] \in {"close", "done"} => paReturns[t] = 1 /\ result[t] # NoResult
           /\ tpc[t] \in {"wait", "login", "balance", "gifts", "send"}
                => paReturns[t] = 0

C2_Witness ==
    /\ mode = "seq" /\ pc = "done"
    /\ success_count >= 1 /\ fail_count >= 1

\* C3: an exception raised at any point of one account's processing
\* (session creation, login, action, session close) becomes a failed
\* outcome of that account and never aborts the batch: no task ends with
\* the exception, and gather is never left without the results.
C3_ExceptionNeverAbortsBatch ==
    mode = "batch" =>
      /\ \A t \in Tasks : tpc[t] # "raised"
      /\ bpc # "failed"

\* C4: at every moment at most max_concurrent running tasks hold an open
\* session: a running task that holds a session holds a permit, the permits
\* held and the free ones add up to max_concurrent, and a task that ended
\* normally closed its session before it gave the permit back.
OpenInFlight == { t \in Tasks : ~TaskEnded(t) /\ session[t] = "open" }

C4_BoundedOpenSessions ==
    mode = "batch" =>
      /\ Cardinality(OpenInFlight) <= max_concurrent
      /\ \A t \in OpenInFlight : holds[t]
      /\ sem >= 0
      /\ sem + Cardinality({ t \in Tasks : holds[t] }) = max_concurrent
      /\ \A t \in Tasks : tpc[t] = "wait" => session[t] = "none" /\ ~holds[t]
      /\ \A t \in Tasks : tpc[t] = "done" => session[t] = "none" /\ ~holds[t]

C4_Witness ==
    /\ mode = "batch"
    /\ Cardinality(OpenInFlight) = max_concurrent
    /\ \E t \in Tasks : tpc[t] = "wait"

\* C5 as stated: a login that fails transiently twice and then succeeds is
\* tried three times, and the outcome recorded for the account has passed
\* login.
Transient3 == <<"transient", "transient", "ok">>

C6_InvalidCredentialsOnce ==
    \A a \in Accts(mode) :
      script[a] = <<"invalid">> =>
        /\ loginCalls[a] <= 1
        /\ actionCalls[a] = 0
        /\ Recorded(a) =>
             /\ loginCalls[a] = 1
             /\ ~RecordedOk(a)
             /\ IF mode = "seq" THEN Counted(a) = 1 ELSE paReturns[a] = 1

C6_Witness ==
    \E a \in Tasks :
      /\ mode = "batch" /\ script[a] = <<"invalid">>
      /\ tpc[a] = "done" /\ result[a].error = "auth"

\* C7: the remote action (change_avatar, send_gift) is invoked at most once
\* per account; a failed action is recorded as a failed outcome and is not
\* invoked again.
C7_ActionAtMostOnce ==
    \A a \in Accts(mode) :
      /\ actionCalls[a] <= 1
      /\ Recorded(a) /\ actionHist[a] = "failed"
           => actionCalls[a] = 1 /\ ~RecordedOk(a)

C7_Witness ==
    /\ mode = "seq"
    /\ \E a \in Accounts :
         /\ actionHist[a] = "failed" /\ a < i
         /\ loginCalls[i] = 1

Aborted == pending = "interrupt" \/ bpc = "stopped"

C9_AbortAfterFirstAccount ==
    mode = "seq" /\ pc = "exited" /\ pending = "interrupt" /\ i = 1
      /\ loginCalls[1] = 1 =>
        /\ summary # <<>>
        /\ summary[1].succeeded + summary[1].failed = 1
        /\ \A a \in Accounts : driver[a] = "none"

\* C10: in the sequential run the outcomes are produced in the order of the
\* accounts, and when every login and every avatar change succeeds the
\* summary is total = succeeded = the number of accounts (3), failed = 0,
\* rate = 100.0.
C10_OrderedOutcomesAndFullSummary ==
    mode = "seq" =>
      /\ \A k, l \in 1..Len(outcomes) : k < l => outcomes[k].acc < outcomes[l].acc
      /\ pc = "done" =>
           /\ Len(outcomes) = NAccounts
           /\ \A k \in 1..Len(outcomes) : outcomes[k].acc = k
           /\ summary[1].total = NAccounts
      /\ pc = "done" /\ (\A a \in Accounts : actionHist[a] = "applied") =>
           summary = <<[total |-> NAccounts, succeeded |-> NAccounts,
                        failed |-> 0, rate |-> 1000]>>

C10_Witness ==
    /\ mode = "seq" /\ pc = "done"
    /\ \A a \in Accounts : actionHist[a] = "applied"
    /\ summary # <<>> /\ summary[1].rate = 1000

\* ------------------------------------------------ claims, the aggregation

\* The successes among the outcomes, counted from the front of the list.
RECURSIVE CountOk(_)
CountOk(accounts) ==
    IF accounts = <<>> THEN 0
    ELSE (IF Head(accounts) = "ok" THEN 1 ELSE 0) + CountOk(Tail(accounts))

Abs(x) == IF x < 0 THEN -x ELSE x

\* The aggregation has run to its end and has printed its statistics.
AggDone == agg.pc = "done"

\* C11: for every list of N outcomes of which K are successes the statistics
\* report succeeded = K, failed = N - K and, when a rate is printed, the rate
\* 100*K/N to the printed decimal (in tenths: within half a tenth of
\* 1000*K/N); the counters of main at the end of its loop add up to the
\* number of accounts.
C11_AggregateCounts ==
    LET N == Len(agg.accounts)
        K == CountOk(agg.accounts)
    IN /\ (agg.kind = "main" /\ agg.pc \in {"summary", "done"}) =>
              /\ agg.success_count + agg.fail_count = N
              /\ agg.success_count = K
       /\ AggDone =>
              /\ agg.out[1].total = N
              /\ agg.out[1].succeeded = K
              /\ agg.out[1].failed = N - K
              /\ N > 0 => 2 * Abs(agg.out[1].rate * N - 1000 * K) <= N

\* print_stats has reported 2 successes of 3 results at 66.7 percent.
C11_Witness ==
    /\ AggDone /\ agg.kind = "gifts"
    /\ Len(agg.accounts) = 3 /\ CountOk(agg.accounts) = 2
    /\ agg.out[1].rate = 667

\* No division by zero has been or is about to be evaluated.
NoDivisionByZero == agg.pc # "crashed" /\ 0 \notin agg.den

\* C12 as stated: aggregating the empty list reports total = 0, succeeded = 0,
\* failed = 0 and a success rate of 0, without dividing by zero.
C12_EmptyAggregateRateZero ==
    /\ NoDivisionByZero
    /\ (AggDone /\ agg.accounts = <<>>) =>
           agg.out[1] = [total |-> 0, succeeded |-> 0, failed |-> 0, rate |-> 0]

\* C12 as the code has it: aggregating the empty list reports total = 0,
\* succeeded = 0, failed = 0 and prints no success rate at all (-1); both
\* programs return before their statistics when there is no account; no
\* execution divides by a total of 0.
C12_EmptyAggregateNoRate ==
    /\ NoDivisionByZero
    /\ (AggDone /\ agg.accounts = <<>>) =>
           /\ agg.kind = "stats"
           /\ agg.out[1] = [total |-> 0, succeeded |-> 0, failed |-> 0, rate |-> -1]
    /\ (agg.kind # "stats" /\ agg.accounts = <<>>) =>
           (agg.pc \in {"guard", "returned"} /\ agg.out = <<>>)

\* print_stats has printed the statistics of the empty list.
C12_Witness ==
    /\ AggDone /\ agg.kind = "stats" /\ agg.accounts = <<>> /\ agg.den = {}

\* ------------------------------------------------ claims, the two managers

\* The operations that act on the account of a session.
ActionOps == {"change_avatar", "update_profile", "send_gift",
              "get_points_balance"}

\* The lifecycle state of the manager the last call was made on.
StateOfLast == IF api.last.mgr = "sm" THEN api.sm_state ELSE api.pm_state

\* C13: after the login of a manager has failed or the manager has been
\* logged out, and until a login succeeds on it again, change_avatar,
\* update_profile, send_gift and get_points_balance are rejected and make no
\* remote interaction.
C13_NoActionAfterFailedOrLoggedOut ==
    (api.op \in ActionOps /\ StateOfLast \in {"AuthFailed", "LoggedOut"}) =>
        (~api.last.ret /\ ~api.last.remote)

\* C14: a second logout_all (or close) directly after a first one raises
\* nothing, invokes no driver.quit() / session.close() again and leaves the
\* manager's fields as the first call left them.
C14_SecondLogoutChangesNothing ==
    (api.op \in {"logout_all", "close"} /\ api.prev = api.op) =>
        /\ ~api.last.raised
        /\ ~api.last.released
        /\ Fields = api.pre

\* C15: whenever logout_all has returned, driver is None and
\* current_username is None, also when closing the browser raised.
C15_LogoutAllReleasesEverything ==
    api.op = "logout_all" => (api.driver = "none" /\ api.current_username = 0)

\* ------------------------------------- claims, the orchestration again

\* C17: for a credential without a shared secret whose login flow demands a
\* second factor, login is called once and not again, the action is never
\* attempted, one failed outcome is recorded, and the sequential run ends
\* only after every account has its outcome unless it is interrupted.
C17_MissingSecondFactorFailsHard ==
    \A a \in Accts(mode) :
      script[a] = <<"nosecret">> =>
        /\ loginCalls[a] <= 1
        /\ actionCalls[a] = 0
        /\ Recorded(a) =>
             /\ loginCalls[a] = 1
             /\ ~RecordedOk(a)
             /\ IF mode = "seq" THEN Counted(a) = 1 ELSE paReturns[a] = 1
        /\ (mode = "seq" /\ Counted(a) = 1 /\ pending = "none"
              /\ pc \in {"summary", "done", "exited"}) =>
             Len(outcomes) = NAccounts

\* Account 1 lacks its secret and is counted as failed; main is at the
\* login of account 2.
C17_Witness ==
    /\ mode = "seq" /\ script[1] = <<"nosecret">>
    /\ Counted(1) = 1 /\ ~RecordedOk(1) /\ actionCalls[1] = 0
    /\ i = 2 /\ pc = "sleep"

\* ------------------------------------------------- claims, the generator

\* Every character of the secret is of the base64 alphabet.
AllData(s) == \A k \in 1..Len(s) : s[k] < PAD

\* Base64 text: alphabet characters not leaving one over a multiple of 4,
\* unpadded or completed to a multiple of 4 by one or two "=".
WellFormed(s) ==
    \E n \in 0..2 :
        /\ n <= Len(s)
        /\ \A k \in 1..Len(s) : IF k <= Len(s) - n THEN s[k] < PAD ELSE s[k] = PAD
        /\ (Len(s) - n) % 4 # 1
        /\ n > 0 => Len(s) % 4 = 0

Run1Done == gen.pc \notin {"off", "run1"}
Run2Done == gen.pc \notin {"off", "run1", "run2"}

\* C16: the generator returns "" for an absent or malformed secret (it never
\* raises), and both logins treat an empty code as a failed login with no
\* second-factor code submitted.
C16_EmptyCodeFailsLoginUnsubmitted ==
    /\ Run1Done =>
           ((gen.secret = <<>> \/ ~WellFormed(gen.secret)) => gen.code1 = <<>>)
    /\ (gen.pc \in {"pm_login", "done"} /\ gen.code_field
          /\ gen.secret # <<>> /\ gen.code1 = <<>>) =>
           (~gen.sm.ret /\ gen.sm.submitted = <<>>)
    /\ (gen.pc = "done" /\ gen.secret # <<>> /\ gen.code1 = <<>>) =>
           (~gen.pm.ret /\ gen.pm.submitted = <<>>)

\* C18 as stated: a secret of alphabet characters whose length is 1, 2 or 3
\* over a multiple of 4 is padded and yields a 5-character code.
C18_PaddedSecretYieldsCode ==
    (Run1Done /\ AllData(gen.secret) /\ Len(gen.secret) % 4 \in {1, 2, 3}) =>
        Len(gen.code1) = 5

\* C18 as the code has it: a secret of alphabet characters whose length is 2
\* or 3 over a multiple of 4 is padded and yields a 5-character code; with
\* one character over (3 paddings missing) the padded text does not decode
\* and the result is the empty code.
C18_PaddedSecretYieldsCodeUnlessOneOver ==
    (Run1Done /\ AllData(gen.secret)) =>
        /\ Len(gen.secret) % 4 \in {2, 3} => Len(gen.code1) = 5
        /\ Len(gen.secret) % 4 = 1 => gen.code1 = <<>>

\* A 3-character secret has produced a code.
C18_Witness ==
    /\ Run1Done /\ AllData(gen.secret)
    /\ Len(gen.secret) = 3 /\ Len(gen.code1) = 5

\* C19: every well-formed secret yields a code of exactly 5 characters, and
\* the character at position i (0..4) of any code is the alphabet's
\* character number (v div 26^i) mod 26 for the masked 31-bit value v, least
\* significant digit first.
C19_FiveBase26DigitsLowFirst ==
    Run1Done =>
        /\ (gen.secret # <<>> /\ WellFormed(gen.secret)) => Len(gen.code1) = 5
        /\ gen.code1 # <<>> =>
               /\ gen.full_code \in 0..2147483647
               /\ Len(gen.code1) = 5
               /\ \A d \in 0..4 :
                      gen.code1[d + 1] =
                          SteamChars[((gen.full_code \div (26 ^ d)) % 26) + 1]

\* A code has been made from a value of more than five base-26 digits.
C19_Witness ==
    /\ Run1Done /\ gen.h = "mix"
    /\ gen.full_code >= 26 ^ 5 /\ Len(gen.code1) = 5

\* C20: two runs on the same secret at clock readings of the same 30-second
\* window return the same code.
C20_SameWindowSameCode ==
    (Run2Done /\ gen.t1 \div 30 = gen.t2 \div 30) => gen.code1 = gen.code2

\* Two runs at different readings of one window have returned one code.
C20_Witness ==
    /\ Run2Done /\ gen.h = "mix"
    /\ gen.t1 # gen.t2 /\ gen.t1 \div 30 = gen.t2 \div 30
    /\ gen.code1 = gen.code2 /\ Len(gen.code1) = 5

\* ---------------------------------- claims, the order of main's steps

C22_OneManagerPerAccount ==
    /\ mode = "seq" =>
         \A m \in Accounts :
            /\ current_username[m] \in {0, m}
            /\ driver[m] = "open" => (loginCalls[m] >= 1 /\ m <= i)
            /\ (i = m /\ pc \in {"new", "login"} /\ loginCalls[m] = 0) =>
                   (driver[m] = "none" /\ current_username[m] = 0)
    /\ mode = "batch" =>
         \A t \in Tasks :
            /\ session[t] # "none" => tpc[t] # "wait"
            /\ tpc[t] = "wait" => (loginCalls[t] = 0 /\ actionCalls[t] = 0)

\* Account 2 is logged in on its own manager after account 1 was logged in
\* on, and has released, its own.
C22_Witness ==
    /\ mode = "seq" /\ i = 2
    /\ driver[2] = "open" /\ current_username[2] = 2
    /\ driver[1] = "none" /\ RecordedOk(1)

\* C23: an avatar change whose file was sent but whose save was not
\* confirmed is never recorded as a success: the outcome of its account is
\* not a success and it is not counted in success_count.
C23_UnconfirmedNeverCountedAsSuccess ==
    mode = "seq" =>
      /\ \A a \in Accounts : actionHist[a] = "unconfirmed" => ~RecordedOk(a)
      /\ success_count <=
             Cardinality({ a \in Accounts : actionHist[a] = "applied" })

\* ------------------------------------------------ claims, progress

\* The run has printed its final statistics over every account.
SummaryProduced ==
    \/ mode = "seq" /\ summary # <<>> /\ Len(outcomes) = NAccounts
    \/ mode = "batch" /\ stats # <<>> /\ Len(results) = NTasks

\* C24: unless the user aborts, every run ends by producing the final
\* summary over every credential of the input list, whatever accounts failed
\* before.
C24_EveryRunEndsWithSummary == <>(Aborted \/ SummaryProduced)

\* get_unique_profile_data and get_unique_avatars have both returned, and
\* the list looked at has entries, fewer than there are accounts.
ParDone == par.pc = "done"

Fewer(list) == list # <<>> /\ Len(list) < par.count

\* C25 as stated: when fewer parameter sets exist than accounts, account i
\* (0-based) receives set number i mod (number of sets), for the profile
\* data and for the avatars alike.
C25_ModuloCyclingForAll ==
    ParDone =>
        /\ Fewer(par.profile_names) =>
              \A k \in 1..par.count :
                  par.profile_data[k].profile_name
                      = par.profile_names[((k - 1) % Len(par.profile_names)) + 1]
        /\ Fewer(par.avatars) =>
              \A k \in 1..par.count :
                  par.selected_avatars[k]
                      = par.avatars[((k - 1) % Len(par.avatars)) + 1]

\* C25 amended: when a list has fewer entries than there are accounts, every
\* profile field of account i (0-based) is entry i mod (length of that
\* field's own list); the avatars are not cycled: the first accounts receive
\* the loaded avatars in list order, each further account receives one of
\* the loaded avatars, whichever the random choice gives.
C25_ProfileCyclesAvatarsDrawn ==
    ParDone =>
        /\ \A k \in 1..par.count :
              /\ Fewer(par.profile_names) =>
                    par.profile_data[k].profile_name
                        = par.profile_names[((k - 1) % Len(par.profile_names)) + 1]
              /\ Fewer(par.real_names) =>
                    par.profile_data[k].real_name
                        = par.real_names[((k - 1) % Len(par.real_names)) + 1]
              /\ Fewer(par.about_me_texts) =>
                    par.profile_data[k].about_me
                        = par.about_me_texts[((k - 1) % Len(par.about_me_texts)) + 1]
        /\ Fewer(par.avatars) =>
              \A k \in 1..par.count :
                  IF k <= Len(par.avatars)
                  THEN par.selected_avatars[k] = par.avatars[k]
                  ELSE par.selected_avatars[k] \in Range(par.avatars)

\* Four accounts, two profile names and two avatars: the names went round
\* twice, the third account received the second avatar again.
C25_Witness ==
    /\ ParDone
    /\ par.count = 4
    /\ Len(par.profile_names) = 2
    /\ Len(par.real_names) = 1
    /\ Len(par.avatars) = 2
    /\ par.profile_data[4].profile_name = 2
    /\ par.selected_avatars[3] = 2

\* No two entries of a list of accounts carry the same username.
UniqueUsernames(accounts) ==
    \A j, k \in DOMAIN accounts :
        j # k => accounts[j].username # accounts[k].username

\* C26: the account list load_accounts returns, and the list main_async
\* hands to process_accounts_batch, never hold two accounts with the same
\* username.
C26_UsernamesUnique ==
    /\ ld.pc \in {"loaded", "batch", "exit"} => UniqueUsernames(ld.accounts)
    /\ ld.pc = "batch" => UniqueUsernames(ld.account_data)

\* Account a's login was called and the remote service answered "ok" to the
\* last call.
LoginAnsweredOk(a) ==
    loginCalls[a] >= 1 /\ ScriptAt(script[a], loginCalls[a]) = "ok"

\* Account a is logged in on the manager made for it.
LoggedInAs(a) ==
    IF mode = "seq" THEN current_username[ManagerOf(a)] = a
    ELSE session[a] = "open"

\* The logout of account a has run (or the account was given up).
PastLogout(a) ==
    IF mode = "seq"
    THEN a < i \/ (a = i /\ pc \in {"delay", "interrupted", "exited"})
    ELSE tpc[a] \in {"done", "raised", "cancelled"}

\* C27: for every account the stages run in the order login, action,
\* logout: no login call is made once the action was attempted, every
\* attempt of the action starts where the login of that same account has
\* returned success and the account is logged in, neither is made after the
\* logout, and an account whose login failed never has its action attempted.
C27_LoginThenActionThenLogout ==
    /\ [](\A a \in Accts(mode) : actionCalls[a] >= 1 => LoginAnsweredOk(a))
    /\ [][\A a \in Accts(mode) :
            /\ loginCalls'[a] > loginCalls[a] =>
                  actionCalls[a] = 0 /\ ~PastLogout(a)
            /\ actionCalls'[a] > actionCalls[a] =>
                  LoginAnsweredOk(a) /\ LoggedInAs(a) /\ ~PastLogout(a)]_vars

\* The sequential run is past its second account: the first one logged in
\* and had its avatar changed, the login of the second failed and no action
\* was attempted for it.
C27_Witness ==
    /\ mode = "seq"
    /\ i > 2
    /\ actionCalls[1] = 1
    /\ actionHist[1] = "applied"
    /\ loginCalls[2] = 1
    /\ script[2] = <<"invalid">>
    /\ actionCalls[2] = 0

\* process_accounts_batch has returned its list to main_async.
BatchReturned == mode = "batch" /\ bpc \in {"results", "done"}

\* C28: whatever the order in which the concurrent tasks ran and completed,
\* the list process_accounts_batch returns is as long as the account list
\* and its entry i is the result built for account i: it carries account
\* i's username and is the dict task i's process_account returned.
C28_ResultsInAccountOrder ==
    BatchReturned =>
        /\ Len(results) = NTasks
        /\ \A t \in Tasks :
              /\ results[t].username = t
              /\ results[t] = result[t]
              /\ paReturns[t] = 1

\* Two tasks ran side by side; the list holds the failed login of account 1
\* first and the gift sent by account 2 second.
C28_Witness ==
    /\ BatchReturned
    /\ max_concurrent = 2
    /\ results[1].error = "auth"
    /\ results[2].success
    /\ results[2].gift_sent = 2

\* The permits add up: those free and those held are max_concurrent, a task
\* that ended holds none.
PermitsAccounted ==
    /\ sem + Cardinality({ t \in Tasks : holds[t] }) = max_concurrent
    /\ \A t \in Tasks : TaskEnded(t) => ~holds[t]

\* process_accounts_batch is over, one way or the other, and no task waits.
BatchOver ==
    /\ bpc \in {"results", "done", "failed", "stopped"}
    /\ \A t \in Tasks : tpc[t] # "wait"

StageFailures == {"auth", "steamid", "balance", "zero", "gifts", "nogift"}

\* Task t is about to call send_gift: what it holds then.
AboutToSend(t) ==
    LET balance == result[t].points_balance IN
    /\ LoginAnsweredOk(t)
    /\ actionCalls[t] = 0
    /\ result[t].error = ""
    /\ balance > 0
    /\ gifts[t] # <<>>
    /\ best[t] \in { gifts[t][k] : k \in 1..Len(gifts[t]) }
    /\ best[t] <= balance
    /\ \A k \in 1..Len(gifts[t]) : gifts[t][k] <= balance => gifts[t][k] <= best[t]

\* C30: process_account calls send_gift only after the login, the steam id,
\* the balance and the gift list were obtained and the balance is positive,
\* and then with the dearest of the gifts that cost at most the balance; a
\* result that reports a failed stage has no later stage done and no gift
\* sent.
C30_GiftAffordableAndBest ==
    /\ [](mode = "batch" =>
            \A t \in Tasks :
                /\ tpc[t] = "send" => AboutToSend(t)
                /\ result[t] # NoResult /\ result[t].error \in StageFailures =>
                      /\ actionCalls[t] = 0
                      /\ ~result[t].success
                      /\ result[t].gift_sent = 0
                /\ result[t] # NoResult
                   /\ result[t].error \in {"auth", "steamid", "balance"} =>
                      result[t].points_balance = 0
                /\ result[t] # NoResult /\ result[t].gift_sent # 0 =>
                      /\ actionHist[t] = "sent"
                      /\ result[t].gift_sent <= result[t].points_balance)
    /\ [][mode = "batch" =>
            \A t \in Tasks :
                actionCalls'[t] > actionCalls[t] =>
                    /\ tpc[t] = "send"
                    /\ result'[t].gift_sent \in {0, best[t]}]_vars

\* Account 1 had 2 points and sent the gift that costs 2; account 2 has 2
\* points, is offered gifts for 1 and for 3 and is about to send the one
\* for 1.
C30_Witness ==
    /\ mode = "batch"
    /\ result[1] # NoResult
    /\ result[1].success
    /\ result[1].gift_sent = 2
    /\ tpc[2] = "send"
    /\ gifts[2] = <<1, 3>>
    /\ best[2] = 1

\* process_account has returned the result of task t.
Returned(t) == paReturns[t] >= 1 /\ result[t] # NoResult

\* C31: every result process_account returns is well-formed: success is
\* True exactly when a gift is recorded and no error is, and False exactly
\* when an error is recorded and no gift is.
C31_ResultWellFormed ==
    mode = "batch" =>
        \A t \in Tasks :
            Returned(t) =>
                /\ result[t].success <=>
                      (result[t].gift_sent # 0 /\ result[t].error = "")
                /\ ~result[t].success <=>
                      (result[t].error # "" /\ result[t].gift_sent = 0)

\* Both kinds of result were returned: account 1 sent a gift, the send of
\* account 2 failed.
C31_Witness ==
    /\ mode = "batch"
    /\ Returned(1) /\ result[1].success /\ result[1].gift_sent = 1
    /\ Returned(2) /\ result[2].error = "send"

\* The accounts whose manager holds a browser.
OpenBrowsers == { a \in Accounts : driver[a] = "open" }

\* C32: in the sequential run at most one session is open at any time: when
\* the login of an account begins, the browser of every earlier account has
\* been closed.
C32_AtMostOneSessionOpen ==
    mode = "seq" =>
        /\ Cardinality(OpenBrowsers) <= 1
        /\ pc = "login" => \A a \in Accounts : a < i => driver[a] = "none"

\* The last call was change_avatar or update_profile on the SteamManager.
ActionCalled == api.op \in {"change_avatar", "update_profile"}

\* Its precondition failed: the manager was not logged in as the username
\* given, or the avatar file was missing / no profile field was given.
PreconditionFailed == api.pre[2] # api.arg \/ ~api.args_ok

\* C33: an action call on SteamManager whose precondition fails returns
\* False, does not touch the browser and leaves the manager's fields as
\* they were.
C33_FailedPreconditionRejected ==
    ActionCalled /\ PreconditionFailed =>
        /\ ~api.last.ret
        /\ ~api.last.remote
        /\ Fields = api.pre

\* With a browser open and logged in as user 1, change_avatar was called for
\* user 2 with an existing file, and was refused.
C33_Witness ==
    /\ api.op = "change_avatar"
    /\ api.pre = <<"open", 1, "none">>
    /\ api.arg = 2
    /\ api.args_ok
    /\ ~api.last.ret

\* C34: SteamManager.login returns True exactly when it sets
\* current_username to the username given; when it returns False
\* current_username is what it was before the call; and in every reachable
\* state the manager is logged in as somebody only while it holds a browser.
C34_LoginSetsUserOnlyOnSuccess ==
    /\ api.op = "login" =>
          /\ api.last.ret => api.current_username = api.arg
          /\ ~api.last.ret => api.current_username = api.pre[2]
    /\ api.op # "off" =>
          (api.current_username # 0 => api.driver = "open")

\* Logged in as user 1, a login for user 2 failed and left user 1 in place;
\* the browser is still there.
C34_Witness ==
    /\ api.op = "login"
    /\ api.arg = 2
    /\ ~api.last.ret
    /\ api.pre[2] = 1
    /\ api.current_username = 1
    /\ api.driver = "open"

\* C35: get_unique_avatars(count) returns exactly count entries, so that
\* selected_avatars[i] exists for every account index i of the sequential
\* run; and when count does not exceed the number of loaded avatars the
\* entries are loaded avatars, pairwise distinct.
C35_ExactlyCountAvatars ==
    ParDone =>
        /\ Len(par.selected_avatars) = par.count
        /\ DOMAIN par.selected_avatars = 1..par.count
        /\ par.count <= Len(par.avatars) =>
              /\ \A k \in 1..par.count :
                    par.selected_avatars[k] \in Range(par.avatars)
              /\ \A j, k \in 1..par.count :
                    j # k => par.selected_avatars[j] # par.selected_avatars[k]

\* Two accounts and two avatars: the sample gave the second avatar to the
\* first account and the first to the second.
C35_Witness ==
    /\ ParDone
    /\ par.count = 2
    /\ Len(par.avatars) = 2
    /\ par.selected_avatars = <<2, 1>>

\* C36: the two copies of the code generator are equivalent: called on the
\* same secret at the same clock reading, the SteamGuardGenerator of
\* steam_manager and the one of steam_points_manager return the same result,
\* the empty one on an absent or undecodable secret included.
C36_GeneratorCopiesAgree ==
    /\ gen.pc \notin {"off", "run1"} =>
          /\ gen.code1 = gen.points_code1
          /\ (gen.secret = <<>> \/ ~B64Decode(Pad(gen.secret)).ok) =>
                gen.points_code1 = <<>>
    /\ Run2Done => gen.code2 = gen.points_code2

\* A two-character secret, which both copies pad, read in two different
\* windows: the copies agree on a 5-character code in each window.
C36_Witness ==
    /\ Run2Done
    /\ Len(gen.secret) = 2
    /\ gen.t1 \div 30 # gen.t2 \div 30
    /\ Len(gen.points_code1) = 5
    /\ gen.points_code1 = gen.code1
    /\ Len(gen.points_code2) = 5
    /\ gen.points_code2 = gen.code2

====
